---------------------------- MODULE Spec2Model ----------------------------
(***************************************************************************)
(* Model of src/ultility_functions.py: add_padding (numpy buffer padding)  *)
(* and compress_image_jpeg (JPEG re-encoding through cv2.imread/imwrite).  *)
(*                                                                         *)
(* Strings are sequences of one-character strings, so that split, join,    *)
(* lower and endswith are computed the way Python computes them.  A local  *)
(* variable of a Python frame is << >> while unbound and <<v>> once bound. *)
(***************************************************************************)
EXTENDS Integers, Sequences, FiniteSets, TLC

VARIABLES
    pc,             \* position of the caller / of the running function
    heap,           \* the live buffers, by id: <<input>> or <<input, returned>>
    pad_args,       \* arguments of the running add_padding call
    pad_ret,        \* outcome of add_padding: returned buffer id or exception
    args,           \* arguments of the running compress_image_jpeg call
    fs,             \* os.path.exists(image_url) at the time of the call
    image,          \* local "image" of compress_image_jpeg
    new_url,        \* local "new_url"
    is_optimize,    \* local "is_optimize"
    is_progressive, \* local "is_progressive"
    calls,          \* Image Codec invocations (imread / imwrite), in order
    stdout,         \* lines printed by compress_image_jpeg
    result          \* outcome of compress_image_jpeg: returned or raised

vars == <<pc, heap, pad_args, pad_ret, args, fs, image, new_url,
          is_optimize, is_progressive, calls, stdout, result>>

padVars  == <<heap, pad_args, pad_ret>>
jpegVars == <<args, fs, image, new_url, is_optimize, is_progressive,
              calls, stdout, result>>

-----------------------------------------------------------------------------
(* Bounds of the explored inputs.                                          *)

MaxDirs == 2
MaxDim == 2
MaxPad == 2
MaxChan == 4

-----------------------------------------------------------------------------
(* Python values.                                                          *)

Unbound == << >>
Bound(v) == <<v>>
IsBound(x) == x # << >>
ValueOf(x) == x[1]

None == [tag |-> "None"]
NoCall == [tag |-> "none"]
Returned == [tag |-> "returned"]
Raised(exc, msg) == [tag |-> "raised", exc |-> exc, msg |-> msg]

-----------------------------------------------------------------------------
(* str methods used by the source.                                         *)

UpperCase == <<"A","B","C","D","E","F","G","H","I","J","K","L","M",
               "N","O","P","Q","R","S","T","U","V","W","X","Y","Z">>
LowerCase == <<"a","b","c","d","e","f","g","h","i","j","k","l","m",
               "n","o","p","q","r","s","t","u","v","w","x","y","z">>

LowerChar(c) ==
    IF \E i \in DOMAIN UpperCase : UpperCase[i] = c
    THEN LowerCase[CHOOSE i \in DOMAIN UpperCase : UpperCase[i] = c]
    ELSE c

\* str.lower()
Lower(s) == [i \in DOMAIN s |-> LowerChar(s[i])]

\* str.endswith(suffix)
EndsWith(s, suffix) ==
    /\ Len(s) >= Len(suffix)
    /\ SubSeq(s, Len(s) - Len(suffix) + 1, Len(s)) = suffix

\* str.endswith(tuple of suffixes)
EndsWithAny(s, suffixes) == \E suffix \in suffixes : EndsWith(s, suffix)

\* sep in s, for a one-character sep
Contains(s, sep) == \E i \in DOMAIN s : s[i] = sep

\* str.split(sep), for a one-character sep
RECURSIVE Split(_, _)
Split(s, sep) ==
    IF ~Contains(s, sep) THEN <<s>>
    ELSE LET i == CHOOSE k \in DOMAIN s :
                      s[k] = sep /\ \A j \in 1..(k - 1) : s[j] # sep
         IN  <<SubSeq(s, 1, i - 1)>> \o Split(SubSeq(s, i + 1, Len(s)), sep)

\* sep.join(parts)
RECURSIVE Join(_, _)
Join(sep, parts) ==
    IF parts = << >> THEN << >>
    ELSE IF Len(parts) = 1 THEN parts[1]
    ELSE parts[1] \o <<sep>> \o Join(sep, Tail(parts))

\* parts[-1] = last
SetLast(parts, last) == [parts EXCEPT ![Len(parts)] = last]

BackSlash == "\\"
Slash == "/"

-----------------------------------------------------------------------------
(* compress_image_jpeg: the extension tuples of lines 110-113 and 125/135. *)

SourceExtensions ==
    { <<".","j","p","g">>, <<".","j","p","e","g">>, <<".","p","n","g">>,
      <<".","b","m","p">>, <<".","d","i","b">>,
      <<".","j","p","e">>, <<".","j","p","2">>, <<".","w","e","b","p">>,
      <<".","p","b","m">>, <<".","p","g","m">>,
      <<".","p","p","m">>, <<".","p","x","m">>, <<".","p","n","m">>,
      <<".","s","r">>, <<".","r","a","s">>,
      <<".","t","i","f","f">>, <<".","t","i","f">>, <<".","e","x","r">>,
      <<".","h","d","r">>, <<".","p","i","c">> }

JpegExtensions ==
    { <<".","j","p","g">>, <<".","j","p","e","g">>, <<".","j","p","e">> }

DotJpg == <<".","j","p","g">>

\* image_url.lower().endswith((...)), line 110
HasSourceExtension(image_url) == EndsWithAny(Lower(image_url), SourceExtensions)

\* output_name.lower().endswith(('.jpg', '.jpeg', ".jpe")), lines 125 and 135
HasJpegExtension(output_name) == EndsWithAny(Lower(output_name), JpegExtensions)


\* lines 125-130 and 135-140: the body shared by both separator branches;
\* both rejoin with "\\"
ReplaceFileName(image_url, output_name, sep) ==
    LET split_name == Split(image_url, sep)
    IN  IF HasJpegExtension(output_name)
        THEN Join(BackSlash, SetLast(split_name, output_name))
        ELSE Join(BackSlash, SetLast(split_name, output_name \o DotJpg))

\* lines 121-140: the two independent "if" statements, in order; new_url
\* stays unbound when neither separator occurs in image_url
DeriveUrl(image_url, output_name) ==
    LET after121 == IF Contains(image_url, BackSlash)
                    THEN Bound(ReplaceFileName(image_url, output_name, BackSlash))
                    ELSE Unbound
    IN  IF Contains(image_url, Slash)
        THEN Bound(ReplaceFileName(image_url, output_name, Slash))
        ELSE after121

\* lines 143-146 and 148-151: "if x is True: 1 / elif x is False: 0"
FlagOf(x) ==
    IF x = TRUE THEN Bound(1)
    ELSE IF x = FALSE THEN Bound(0)
    ELSE Unbound

\* SourceCheck without the "else: raise" of lines 117-118
SourceCheck_NoRaise(image_url, exists) ==
    IF exists /\ HasSourceExtension(image_url) THEN "imread" ELSE "skip"

\* SourceCheck that rejects an extension off the list instead of going on
SourceCheck_FailFast(image_url, exists) ==
    IF exists /\ HasSourceExtension(image_url) THEN "imread" ELSE "raise"

\* lines 109-118: what the first statement does with the source path
SourceCheck(image_url, exists) ==
    IF exists
    THEN IF HasSourceExtension(image_url) THEN "imread" ELSE "skip"
    ELSE "raise"

NotExistsText == "Image does not exists - please check the URL and the file again"

\* cv2.imread returns the decoded array, or None when the file cannot be decoded
Decoded(image_url) == [tag |-> "ndarray", from |-> image_url]
ImreadResults(image_url) == { Decoded(image_url), None }

\* cv2.imwrite returns a bool or raises cv2.error; an empty image always raises
CvError == "cv2.error"
ImwriteOutcomes(img) ==
    IF img = None THEN { "raise" } ELSE { "true", "false", "raise" }

\* the parameter list with the two flags under each other's key
ImwriteParams_Swapped(quality, opt, prog, chroma_quality, luma_quality) ==
    << <<"IMWRITE_JPEG_QUALITY", quality>>,
       <<"IMWRITE_JPEG_OPTIMIZE", prog>>,
       <<"IMWRITE_JPEG_PROGRESSIVE", opt>>,
       <<"IMWRITE_JPEG_CHROMA_QUALITY", chroma_quality>>,
       <<"IMWRITE_JPEG_LUMA_QUALITY", luma_quality>> >>

\* the parameter list of lines 155-159
ImwriteParams(quality, opt, prog, chroma_quality, luma_quality) ==
    << <<"IMWRITE_JPEG_QUALITY", quality>>,
       <<"IMWRITE_JPEG_OPTIMIZE", opt>>,
       <<"IMWRITE_JPEG_PROGRESSIVE", prog>>,
       <<"IMWRITE_JPEG_CHROMA_QUALITY", chroma_quality>>,
       <<"IMWRITE_JPEG_LUMA_QUALITY", luma_quality>> >>

\* the first local that line 155-159 reads while it is unbound, in Python's
\* left-to-right evaluation order of the call's arguments
FirstUnbound ==
    IF ~IsBound(new_url) THEN "new_url"
    ELSE IF ~IsBound(image) THEN "image"
    ELSE IF ~IsBound(is_optimize) THEN "is_optimize"
    ELSE IF ~IsBound(is_progressive) THEN "is_progressive"
    ELSE "none"

UnboundLocalText(name) == <<"UnboundLocalError", name>>

\* line 160 and line 164
SuccessLine(url) == [kind |-> "success", url |-> url]
FailureLine(e) == [kind |-> "failure", log |-> e]

\* an except block that reports and then re-raises
AfterImwrite_Reraise(outcome, url) ==
    IF outcome = "raise"
    THEN [line |-> FailureLine(CvError), result |-> Raised("cv2.error", CvError)]
    ELSE [line |-> SuccessLine(url), result |-> Returned]

\* lines 160-164: what follows the imwrite call: the success line when it
\* returned (True or False), the failure line when it raised; either way the
\* function then falls off its end
AfterImwrite(outcome, url) ==
    IF outcome = "raise"
    THEN [line |-> FailureLine(CvError), result |-> Returned]
    ELSE [line |-> SuccessLine(url), result |-> Returned]

-----------------------------------------------------------------------------
(* numpy: an ndarray is [shape, data], data a function of 0-based index    *)
(* tuples to uint8 samples.                                                *)

Indices(shape) ==
    IF Len(shape) = 2
    THEN { <<i, j>> : i \in 0..(shape[1] - 1), j \in 0..(shape[2] - 1) }
    ELSE { <<i, j, k>> : i \in 0..(shape[1] - 1), j \in 0..(shape[2] - 1),
                         k \in 0..(shape[3] - 1) }

Uint8(v) == v % 256

PyValueError == [tag |-> "raised", exc |-> "ValueError"]
Value(a) == [tag |-> "value", value |-> a]

\* numpy's rule for copying src into dst: trailing axes are aligned and every
\* src axis has the length of the dst axis or length 1
Broadcastable(srcShape, dstShape) ==
    /\ Len(srcShape) <= Len(dstShape)
    /\ \A k \in 1..Len(srcShape) :
          \/ srcShape[k] = dstShape[Len(dstShape) - Len(srcShape) + k]
          \/ srcShape[k] = 1

\* the src index read for one dst index
BroadcastIndex(srcShape, dstIdx) ==
    [k \in 1..Len(srcShape) |->
        IF srcShape[k] = 1 THEN 0 ELSE dstIdx[Len(dstIdx) - Len(srcShape) + k]]

\* numpy.full(shape, fill, dtype='uint8') with fill a scalar (line 54)
FullScalar(shape, fill) ==
    IF \E k \in DOMAIN shape : shape[k] < 0 THEN PyValueError
    ELSE Value([shape |-> shape,
                data |-> [idx \in Indices(shape) |-> Uint8(fill)]])

\* numpy.full(shape, fill, dtype='uint8') with fill a tuple (line 57): the
\* tuple is an array of shape (len(fill),) broadcast into the new array
FullTuple(shape, fill) ==
    IF \E k \in DOMAIN shape : shape[k] < 0 THEN PyValueError
    ELSE IF ~Broadcastable(<<Len(fill)>>, shape) THEN PyValueError
    ELSE Value([shape |-> shape,
                data |-> [idx \in Indices(shape) |->
                    Uint8(fill[BroadcastIndex(<<Len(fill)>>, idx)[1] + 1])]])

\* slice(start, stop).indices(n): a negative bound counts from the end, and
\* both bounds are clipped to 0..n
SliceBound(x, n) ==
    IF x < 0 THEN (IF x + n < 0 THEN 0 ELSE x + n)
    ELSE (IF x > n THEN n ELSE x)

SliceStart(start, stop, n) == SliceBound(start, n)

SliceLen(start, stop, n) ==
    IF SliceBound(stop, n) > SliceBound(start, n)
    THEN SliceBound(stop, n) - SliceBound(start, n)
    ELSE 0

\* dst[r0:r1, c0:c1] = src (line 62): src is broadcast into the selected view
SetSlice(dst, r0, r1, c0, c1, src) ==
    LET rlo  == SliceStart(r0, r1, dst.shape[1])
        rlen == SliceLen(r0, r1, dst.shape[1])
        clo  == SliceStart(c0, c1, dst.shape[2])
        clen == SliceLen(c0, c1, dst.shape[2])
        view == <<rlen, clen>> \o SubSeq(dst.shape, 3, Len(dst.shape))
        InView(idx) == /\ rlo <= idx[1] /\ idx[1] < rlo + rlen
                       /\ clo <= idx[2] /\ idx[2] < clo + clen
        ViewIdx(idx) == [idx EXCEPT ![1] = idx[1] - rlo, ![2] = idx[2] - clo]
    IN  IF ~Broadcastable(src.shape, view) THEN PyValueError
        ELSE Value([shape |-> dst.shape,
                    data |-> [idx \in Indices(dst.shape) |->
                        IF InView(idx)
                        THEN Uint8(src.data[BroadcastIndex(src.shape, ViewIdx(idx))])
                        ELSE dst.data[idx]]])

-----------------------------------------------------------------------------
(* add_padding, lines 14-64.                                               *)

NoChannel == << >>

\* lines 40-46: "height, width, color_channel = image.shape", with the
\* two-name unpacking as the fallback; any other rank lets ValueError escape
UnpackShape(shape) ==
    IF Len(shape) = 3
    THEN Value([height |-> shape[1], width |-> shape[2], color_channel |-> <<shape[3]>>])
    ELSE IF Len(shape) = 2
    THEN Value([height |-> shape[1], width |-> shape[2], color_channel |-> NoChannel])
    ELSE PyValueError

\* lines 53-57
NewBuffer(new_height, new_width, color_channel) ==
    IF color_channel = NoChannel
    THEN FullScalar(<<new_height, new_width>>, 0)
    ELSE FullTuple(<<new_height, new_width, color_channel[1]>>, <<0, 0, 0>>)

\* lines 40-64: the value add_padding returns, or the exception it lets escape
add_padding(img, left_padding, top_padding, right_padding, bottom_padding) ==
    LET dims == UnpackShape(img.shape)
    IN  IF dims.tag = "raised" THEN dims
        ELSE
        LET new_height == dims.value.height + top_padding + bottom_padding
            new_width  == dims.value.width + left_padding + right_padding
            pad_img    == NewBuffer(new_height, new_width, dims.value.color_channel)
        IN  IF pad_img.tag = "raised" THEN pad_img
            ELSE SetSlice(pad_img.value,
                          0 + top_padding, new_height - bottom_padding,
                          0 + left_padding, new_width - right_padding,
                          img)

-----------------------------------------------------------------------------
(* Inputs of add_padding.                                                  *)

Seeds == { 1, 250 }

ImageShapes ==
    { <<h, w>> : h \in 1..MaxDim, w \in 1..MaxDim }
    \cup { <<h, w, c>> : h \in 1..MaxDim, w \in 1..MaxDim, c \in 1..MaxChan }

\* a buffer whose samples differ from place to place
TestImage(shape, seed) ==
    [shape |-> shape,
     data |-> [idx \in Indices(shape) |->
        Uint8(seed + 16 * idx[1] + 4 * idx[2]
              + (IF Len(idx) = 3 THEN idx[3] ELSE 0))]]

Paddings == (0 - MaxPad)..MaxPad

-----------------------------------------------------------------------------
(* Inputs of compress_image_jpeg.                                          *)

Separators == { Slash, BackSlash }

\* directory prefixes "a/", "a\", "a/b/", "a/b\", ... of n segments
RECURSIVE DirPrefixes(_)
DirPrefixes(n) ==
    IF n = 0 THEN { << >> }
    ELSE { p \o <<LowerCase[n]>> \o <<s>> : p \in DirPrefixes(n - 1), s \in Separators }

SourceFiles ==
    { <<"x",".","p","n","g">>, <<"x",".","J","P","G">>, <<"x",".","t","x","t">> }

SourcePaths ==
    { p \o f : p \in UNION { DirPrefixes(n) : n \in 0..MaxDirs }, f \in SourceFiles }

OutputNames ==
    { <<"o","u","t">>, <<"o","u","t",".","j","p","e","g">>,
      <<"o",".","J","P","G">>, <<"o",".","p","n","g">> }

Qualities == { 90, 101 }
ChromaQualities == { 75, 0 - 1 }
LumaQualities == { 75, 300 }

-----------------------------------------------------------------------------
(* State machine.                                                          *)

NoArgs == [tag |-> "none"]

Init ==
    /\ pc = "idle"
    /\ heap = << >>
    /\ pad_args = NoArgs
    /\ pad_ret = NoCall
    /\ args = NoArgs
    /\ fs = FALSE
    /\ image = Unbound
    /\ new_url = Unbound
    /\ is_optimize = Unbound
    /\ is_progressive = Unbound
    /\ calls = << >>
    /\ stdout = << >>
    /\ result = NoCall

\* a caller invokes compress_image_jpeg (line 77) on some file-system state
CallCompress ==
    /\ pc = "idle"
    /\ \E image_url \in SourcePaths, output_name \in OutputNames,
          quality \in Qualities, optimize \in BOOLEAN, progressive \in BOOLEAN,
          chroma_quality \in ChromaQualities, luma_quality \in LumaQualities :
            args' = [image_url |-> image_url, output_name |-> output_name,
                     quality |-> quality, optimize |-> optimize,
                     progressive |-> progressive,
                     chroma_quality |-> chroma_quality,
                     luma_quality |-> luma_quality]
    /\ fs' \in BOOLEAN
    /\ pc' = "check"
    /\ UNCHANGED <<padVars, image, new_url, is_optimize, is_progressive,
                   calls, stdout, result>>

\* lines 109-118
CheckSource ==
    /\ pc = "check"
    /\ LET todo == SourceCheck(args.image_url, fs)
       IN  \/ /\ todo = "imread"
              /\ image' \in { Bound(r) : r \in ImreadResults(args.image_url) }
              /\ calls' = Append(calls, [op |-> "imread", path |-> args.image_url])
              /\ pc' = "derive"
              /\ UNCHANGED result
           \/ /\ todo = "skip"
              /\ pc' = "derive"
              /\ UNCHANGED <<image, calls, result>>
           \/ /\ todo = "raise"
              /\ result' = Raised("ValueError", NotExistsText)
              /\ pc' = "done"
              /\ UNCHANGED <<image, calls>>
    /\ UNCHANGED <<padVars, args, fs, new_url, is_optimize, is_progressive, stdout>>

\* lines 120-140
DerivePath ==
    /\ pc = "derive"
    /\ new_url' = DeriveUrl(args.image_url, args.output_name)
    /\ pc' = "flags"
    /\ UNCHANGED <<padVars, args, fs, image, is_optimize, is_progressive,
                   calls, stdout, result>>

\* lines 142-151
TranslateFlags ==
    /\ pc = "flags"
    /\ is_optimize' = FlagOf(args.optimize)
    /\ is_progressive' = FlagOf(args.progressive)
    /\ pc' = "write"
    /\ UNCHANGED <<padVars, args, fs, image, new_url, calls, stdout, result>>

\* lines 153-164: the try block and its "except Exception"
Write ==
    /\ pc = "write"
    /\ IF FirstUnbound # "none"
       THEN /\ stdout' = Append(stdout, FailureLine(UnboundLocalText(FirstUnbound)))
            /\ result' = Returned
            /\ UNCHANGED calls
       ELSE \E outcome \in ImwriteOutcomes(ValueOf(image)) :
            /\ calls' = Append(calls,
                   [op |-> "imwrite", path |-> ValueOf(new_url),
                    img |-> ValueOf(image),
                    params |-> ImwriteParams(args.quality, ValueOf(is_optimize),
                                             ValueOf(is_progressive),
                                             args.chroma_quality, args.luma_quality),
                    raised |-> (outcome = "raise")])
            /\ stdout' = Append(stdout, AfterImwrite(outcome, ValueOf(new_url)).line)
            /\ result' = AfterImwrite(outcome, ValueOf(new_url)).result
    /\ pc' = "done"
    /\ UNCHANGED <<padVars, args, fs, image, new_url, is_optimize, is_progressive>>

\* the call is over: the frame is dropped and the caller may call again
ReturnCompress ==
    /\ pc = "done"
    /\ pc' = "idle"
    /\ args' = NoArgs
    /\ fs' = FALSE
    /\ image' = Unbound
    /\ new_url' = Unbound
    /\ is_optimize' = Unbound
    /\ is_progressive' = Unbound
    /\ calls' = << >>
    /\ stdout' = << >>
    /\ result' = NoCall
    /\ UNCHANGED padVars

\* a caller builds a buffer (id 1) and calls add_padding on it (line 14); the
\* returned buffer is a new object (id 2), the one numpy.full allocated
CallAddPadding ==
    /\ pc = "idle"
    /\ \E shape \in ImageShapes, seed \in Seeds,
          left \in Paddings, top \in Paddings,
          right \in Paddings, bottom \in Paddings :
          LET img == TestImage(shape, seed)
              out == add_padding(img, left, top, right, bottom)
          IN  /\ pad_args' = [image |-> 1, before |-> img,
                              left_padding |-> left, top_padding |-> top,
                              right_padding |-> right, bottom_padding |-> bottom]
              /\ IF out.tag = "raised"
                 THEN /\ heap' = <<img>>
                      /\ pad_ret' = out
                 ELSE /\ heap' = <<img, out.value>>
                      /\ pad_ret' = [tag |-> "returned", ref |-> 2]
    /\ pc' = "pad_done"
    /\ UNCHANGED jpegVars

\* the caller drops both buffers and may call again
ReturnPad ==
    /\ pc = "pad_done"
    /\ pc' = "idle"
    /\ heap' = << >>
    /\ pad_args' = NoArgs
    /\ pad_ret' = NoCall
    /\ UNCHANGED jpegVars

NextPad ==
    \/ CallAddPadding
    \/ ReturnPad

SpecPad == Init /\ [][NextPad]_vars

NextJpeg ==
    \/ CallCompress
    \/ CheckSource
    \/ DerivePath
    \/ TranslateFlags
    \/ Write
    \/ ReturnCompress

SpecJpeg == Init /\ [][NextJpeg]_vars

-----------------------------------------------------------------------------
(* Properties of add_padding, checked under SpecPad.                       *)

PadDone == pc = "pad_done"

NonNegativePaddings ==
    /\ pad_args.left_padding >= 0 /\ pad_args.top_padding >= 0
    /\ pad_args.right_padding >= 0 /\ pad_args.bottom_padding >= 0

ZeroPaddings ==
    /\ pad_args.left_padding = 0 /\ pad_args.top_padding = 0
    /\ pad_args.right_padding = 0 /\ pad_args.bottom_padding = 0

\* C1: for a buffer of shape (H, W) or (H, W, C) and non-negative paddings,
\* add_padding returns a buffer of shape (H+top+bottom, W+left+right[, C])
\* whose sub-region [top:H+top, left:W+left] is the input, sample for sample,
\* and whose every other sample is zero.
C1_PaddedShapeAndContent ==
    (PadDone /\ NonNegativePaddings) =>
        /\ pad_ret.tag = "returned"
        /\ LET src == pad_args.before
               out == heap[pad_ret.ref]
               H   == src.shape[1]
               W   == src.shape[2]
               t   == pad_args.top_padding
               l   == pad_args.left_padding
               expected == <<H + t + pad_args.bottom_padding,
                             W + l + pad_args.right_padding>>
                           \o SubSeq(src.shape, 3, Len(src.shape))
           IN  /\ out.shape = expected
               /\ \A idx \in Indices(expected) :
                     out.data[idx] =
                        IF /\ t <= idx[1] /\ idx[1] < H + t
                           /\ l <= idx[2] /\ idx[2] < W + l
                        THEN src.data[[idx EXCEPT ![1] = idx[1] - t,
                                                  ![2] = idx[2] - l]]
                        ELSE 0

\* the rows and columns that pad_img[top : new_height-bottom,
\* left : new_width-right] selects (none when pad_img cannot exist)
RegionRows ==
    LET new_height == pad_args.before.shape[1] + pad_args.top_padding
                      + pad_args.bottom_padding
    IN  IF new_height < 0 THEN 0
        ELSE SliceLen(pad_args.top_padding,
                      new_height - pad_args.bottom_padding, new_height)

RegionCols ==
    LET new_width == pad_args.before.shape[2] + pad_args.left_padding
                     + pad_args.right_padding
    IN  IF new_width < 0 THEN 0
        ELSE SliceLen(pad_args.left_padding,
                      new_width - pad_args.right_padding, new_width)

RegionMismatch ==
    \/ RegionRows # pad_args.before.shape[1]
    \/ RegionCols # pad_args.before.shape[2]

\* C6: whenever the destination region of the slice does not have exactly H
\* rows and W columns, add_padding fails with an error and returns no buffer.
C6_MismatchRaises ==
    (PadDone /\ RegionMismatch) => pad_ret.tag = "raised"

\* C8: add_padding(img, 0, 0, 0, 0) returns a buffer equal in shape and
\* content to img and distinct from img; and after any call with non-negative
\* paddings the input buffer's contents are what they were before.
C8_NoOpCopyAndInputIntact ==
    PadDone =>
        /\ ZeroPaddings =>
              /\ pad_ret.tag = "returned"
              /\ pad_ret.ref # pad_args.image
              /\ heap[pad_ret.ref] = pad_args.before
        /\ NonNegativePaddings => heap[pad_args.image] = pad_args.before

-----------------------------------------------------------------------------
(* Properties of compress_image_jpeg, checked under SpecJpeg.              *)

\* the path derivation of lines 120-140 has run
Derived == pc \in {"flags", "write"} \/ (pc = "done" /\ result = Returned)

\* the function has got past its first statement
PastCheck == pc \in {"derive", "flags", "write", "done"}

\* output_name, with ".jpg" appended unless it ends in .jpg/.jpeg/.jpe
OutputFileName ==
    IF \E e \in { <<".","j","p","g">>, <<".","j","p","e","g">>, <<".","j","p","e">> } :
          EndsWith(Lower(args.output_name), e)
    THEN args.output_name
    ELSE args.output_name \o <<".","j","p","g">>

\* the source path up to and including its last "/"
SlashDirectory ==
    LET last == CHOOSE i \in DOMAIN args.image_url :
                    /\ args.image_url[i] = "/"
                    /\ \A j \in (i + 1)..Len(args.image_url) : args.image_url[j] # "/"
    IN  SubSeq(args.image_url, 1, last)

\* C2: for a '/'-separated source path the path handed to the encoder is the
\* source directory, joined as in the source, followed by the output file
\* name ("a/b/c.png" with "out" gives "a/b/out.jpg").
C2_SlashPathDerivation ==
    (Derived /\ Contains(args.image_url, "/") /\ ~Contains(args.image_url, "\\")) =>
        new_url = <<SlashDirectory \o OutputFileName>>

\* the segments of a path, split at every separator of either style
Segments(path) ==
    Split([i \in DOMAIN path |-> IF path[i] = "\\" THEN "/" ELSE path[i]], "/")

\* C9: for every source path with at least one separator, of either style or
\* both mixed, the derived path replaces only the final segment and keeps
\* every directory segment of the source path.
C9_OnlyFileNameReplaced ==
    (Derived /\ (Contains(args.image_url, "/") \/ Contains(args.image_url, "\\"))) =>
        /\ new_url # << >>
        /\ Segments(new_url[1]) = SetLast(Segments(args.image_url), OutputFileName)

\* the option set the encoder must receive
ExpectedParams ==
    << <<"IMWRITE_JPEG_QUALITY", args.quality>>,
       <<"IMWRITE_JPEG_OPTIMIZE", IF args.optimize THEN 1 ELSE 0>>,
       <<"IMWRITE_JPEG_PROGRESSIVE", IF args.progressive THEN 1 ELSE 0>>,
       <<"IMWRITE_JPEG_CHROMA_QUALITY", args.chroma_quality>>,
       <<"IMWRITE_JPEG_LUMA_QUALITY", args.luma_quality>> >>

Encodes == { i \in DOMAIN calls : calls[i].op = "imwrite" }

\* C3: when the source path does not exist, the call raises ValueError and in
\* that execution neither decode nor encode is invoked and nothing is printed.
C3_MissingSourceRaises ==
    (PastCheck /\ ~fs) =>
        /\ pc = "done"
        /\ result = Raised("ValueError", NotExistsText)
        /\ calls = << >>
        /\ stdout = << >>

C3_Witness == pc = "done" /\ ~fs /\ result.tag = "raised"

\* C4: for every existing source path with a listed extension, with or
\* without a directory separator, one call invokes decode exactly once on the
\* source path and then encode exactly once, on the derived path, with the
\* decoded buffer and the option set.
C4_DecodeThenEncodeOnce ==
    (pc = "done" /\ fs /\ HasSourceExtension(args.image_url)) =>
        /\ Len(calls) = 2
        /\ calls[1] = [op |-> "imread", path |-> args.image_url]
        /\ calls[2].op = "imwrite"
        /\ image # << >> /\ calls[2].img = image[1]
        /\ new_url # << >> /\ calls[2].path = new_url[1]
        /\ calls[2].params = ExpectedParams

\* C5: if encode raises, the call still returns normally, the failure line
\* carrying the error text is printed and the success line is not; a success
\* line is printed only for an encode that was invoked and did not raise.
C5_EncodeErrorSwallowed ==
    pc = "done" =>
        /\ \A i \in Encodes :
              calls[i].raised =>
                 /\ result = Returned
                 /\ stdout = <<[kind |-> "failure", log |-> CvError]>>
        /\ \A k \in DOMAIN stdout :
              stdout[k].kind = "success" =>
                 \E i \in Encodes : ~calls[i].raised /\ stdout[k].url = calls[i].path

C5_Witness ==
    /\ pc = "done"
    /\ \E i \in Encodes : calls[i].raised /\ calls[i].img # None

\* C7: the encoder receives 1 for a True flag and 0 for a False one, optimize
\* and progressive independently, and quality, chroma_quality and
\* luma_quality exactly as passed in, also outside 0..100.
C7_FlagsAndQualitiesPassedThrough ==
    \A i \in Encodes : calls[i].params = ExpectedParams

C7_Witness ==
    /\ Encodes # {}
    /\ args.optimize # args.progressive
    /\ args.quality > 100
    /\ args.chroma_quality < 0
    /\ args.luma_quality > 100

=============================================================================
